---- MODULE Spec2Model ----
(***************************************************************************)
(* Model of src/example.cpp: the element tree (ElementTree), the input     *)
(* event buffer, the draw command list and the frame pipeline (a ring of   *)
(* three virtual frames guarded by GL fences) driven by c_render.          *)
(*                                                                         *)
(* Two specifications:                                                     *)
(*   SpecTree  the element tree alone, driven by arbitrary sequences of    *)
(*             begin_ui / push_element / end_ui calls;                     *)
(*   Spec      the whole program: the exported entry points                *)
(*             handle_mousemove / handle_mousedown / handle_mouseup /      *)
(*             c_render, plus the GPU that retires submitted frames.       *)
(*                                                                         *)
(* The tree arrays are modelled as ElementTree::init(capacity) leaves      *)
(* them: ElementCapacity slots each, holding whatever the arena memory     *)
(* held (GarbageFills).  Context::init itself never calls                  *)
(* ElementTree::init; the model gives the context's tree the same storage, *)
(* so that c_render's two push_element calls have slots to write.          *)
(* Coordinates are small integers (the f32 values used are exactly         *)
(* representable).  gl_fence_sync hands out the lowest unused handle.      *)
(***************************************************************************)
EXTENDS Integers, Sequences, FiniteSets, TLC

VARIABLES
    elementTree,      \* Context::elementTree
    calls,            \* history: the push_element calls since begin_ui
    events,           \* Context::events
    virtualFrames,    \* Context::virtualFrames
    virtualFrameIdx,  \* Context::virtualFrameIdx
    drawCommands,     \* Context::drawCommands
    temporaryAllocator, \* the strings allocated from the temporary arena and not yet cleared
    lastTimestamp,    \* c_render's static lastTimestamp
    syncs,            \* GL side: live sync objects and their status
    gpuQueue,         \* GL side: submitted frames the GPU has not finished
    glLog,            \* GL calls issued by the most recent c_render
    lastTick,         \* history: what the most recent c_render did
    streak,           \* history: the current run of consecutive successful ticks
    tickLog,          \* history: console output, order of steps and colour of the most recent c_render
    lastArmed,        \* history: the frames the two most recent successful ticks armed
    treeLog           \* history: whether layout and transform ran since the last change, the
                      \* entries of positions[] the last transform wrote, how many begin_ui
                      \* calls ran in a row (up to 2), and the last operator[] call

vars == <<elementTree, calls, events, virtualFrames, virtualFrameIdx,
          drawCommands, temporaryAllocator, lastTimestamp, syncs, gpuQueue, glLog,
          lastTick, streak, tickLog, lastArmed, treeLog>>

treeVars == <<elementTree, calls, treeLog>>
pipeVars == <<events, virtualFrames, virtualFrameIdx, drawCommands, temporaryAllocator,
              lastTimestamp, syncs, gpuQueue, glLog, lastTick, streak,
              tickLog, lastArmed>>

-----------------------------------------------------------------------------
(* Bounds of the model *)

ElementCapacity == 3
MaxCalls == 4
MaxEvents == 1
MaxDrawCommands == 2
MaxFenceHandle == 4
MaxBatch == 2

-----------------------------------------------------------------------------
(* Element tree *)

NoIndex == -1

\* ElementIndex's default member initializer: ElementIndex{} has index 0
ElementIndexDefault == 0

Vec2Zero == <<0, 0>>

Vec2Add(a, b) == <<a[1] + b[1], a[2] + b[2]>>

Slots == 0 .. (ElementCapacity - 1)

\* Element::from_id: every field but id is zero
from_id(id) == [id |-> id, pos |-> Vec2Zero, extent |-> Vec2Zero]

\* contents of freshly allocated arena memory
GarbageFills == {0, -1}

\* ElementTree::init: the arrays are allocated, not written
TreeInit(g) ==
    [elements        |-> [i \in Slots |-> [id |-> g, pos |-> <<g, g>>, extent |-> <<g, g>>]],
     parents         |-> [i \in Slots |-> g],
     firstChildren   |-> [i \in Slots |-> g],
     lastChildren    |-> [i \in Slots |-> g],
     siblings        |-> [i \in Slots |-> g],
     positions       |-> [i \in Slots |-> <<g, g>>],
     elementCount    |-> 0,
     elementCapacity |-> ElementCapacity,
     constraints     |-> <<>>,
     constraintCount |-> 0]

\* a tree that holds no element: ElementTree::init(allocator, 0), or the
\* members' default values (elementCount = 0, elementCapacity = 0); the slots
\* are the memory behind the empty arrays
TreeInitEmpty(g) == [TreeInit(g) EXCEPT !.elementCapacity = 0]

\* mutant of begin_ui: the count is left as it is
begin_ui_keeps_count(t) == t

begin_ui(t) == [t EXCEPT !.elementCount = 0]

push_element(t, parent, elem) ==
    LET result == t.elementCount
        t1 == [t EXCEPT !.elements[result] = elem,
                        !.parents[result] = parent,
                        !.firstChildren[result] = ElementIndexDefault,
                        !.lastChildren[result] = ElementIndexDefault,
                        !.siblings[result] = ElementIndexDefault]
        t2 == IF parent # NoIndex
              THEN LET last == t1.lastChildren[parent]
                       a == IF last # NoIndex
                            THEN [t1 EXCEPT !.siblings[last] = result]
                            ELSE t1
                       b == [a EXCEPT !.lastChildren[parent] = result]
                   IN  IF b.firstChildren[parent] = NoIndex
                       THEN [b EXCEPT !.firstChildren[parent] = result]
                       ELSE b
              ELSE t1
    IN  [tree |-> t2, result |-> result]

\* ElementTree::layout: a loop with an empty body
layout(t) == t

RECURSIVE transform_from(_, _)
transform_from(t, i) ==
    IF i >= t.elementCount
    THEN t
    ELSE LET parentOrigin == IF t.parents[i] # NoIndex
                             THEN t.positions[t.parents[i]]
                             ELSE Vec2Zero
         IN  transform_from(
                 [t EXCEPT !.positions[i] = Vec2Add(parentOrigin, t.elements[i].pos)],
                 i + 1)

transform(t) == transform_from(t, 0)

\* the entries of positions[] the loop of transform writes
transformed_indices(t) == {i \in Slots : i < t.elementCount}

end_ui(t) == transform(layout(t))

\* ElementTree::operator[] followed by the caller's write of ->extent
set_extent(t, index, extent) == [t EXCEPT !.elements[index].extent = extent]

\* ElementTree::operator[]: elements + index.index, whatever the index is
lookup(t, index) ==
    [index |-> index, count |-> t.elementCount, failed |-> FALSE, slot |-> index]

NoLookup == [index |-> NoIndex, count |-> 0, failed |-> FALSE, slot |-> NoIndex]

-----------------------------------------------------------------------------
(* Reading the child lists *)

\* The indices met by starting at index i and following siblings[], cut
\* after `fuel` indices (a list longer than the capacity revisits an index).
RECURSIVE Follow(_, _, _)
Follow(t, i, fuel) ==
    IF i = NoIndex \/ fuel = 0 \/ i \notin Slots
    THEN <<>>
    ELSE <<i>> \o Follow(t, t.siblings[i], fuel - 1)

ChildList(t, p) == Follow(t, t.firstChildren[p], ElementCapacity + 1)

\* the list ends (reaches NoIndex) without revisiting an index
RECURSIVE Ends(_, _, _)
Ends(t, i, fuel) ==
    IF i = NoIndex THEN TRUE
    ELSE IF fuel = 0 \/ i \notin Slots THEN FALSE
    ELSE Ends(t, t.siblings[i], fuel - 1)

ChildListEnds(t, p) == Ends(t, t.firstChildren[p], ElementCapacity)

Last(s) == IF s = <<>> THEN NoIndex ELSE s[Len(s)]

Occurrences(s, x) == Cardinality({k \in 1 .. Len(s) : s[k] = x})

\* the indices push_element has returned since begin_ui
Returned == {calls[k].result : k \in 1 .. Len(calls)}

RECURSIVE ResultsFor(_, _)
ResultsFor(cs, p) ==
    IF cs = <<>> THEN <<>>
    ELSE (IF cs[1].parent = p THEN <<cs[1].result>> ELSE <<>>)
         \o ResultsFor(Tail(cs), p)

-----------------------------------------------------------------------------
(* SpecTree: the element tree under arbitrary call sequences *)

TreeElements == {[id |-> i, pos |-> p, extent |-> Vec2Zero] :
                    i \in {1, 2}, p \in {<<0, 0>>, <<5, 5>>, <<10, 10>>}}

TreeBeginUi ==
    /\ elementTree' = begin_ui(elementTree)
    /\ calls' = <<>>
    /\ treeLog' = [treeLog EXCEPT !.transformed = FALSE, !.laidOut = FALSE,
                                  !.written = {},
                                  !.resets = IF @ < 2 THEN @ + 1 ELSE @]
    /\ UNCHANGED pipeVars

TreePushElement ==
    /\ Len(calls) < MaxCalls
    /\ \E parent \in {NoIndex} \cup Returned, elem \in TreeElements :
          LET r == push_element(elementTree, parent, elem)
          IN  /\ elementTree' = r.tree
              /\ calls' = Append(calls, [parent |-> parent, result |-> r.result])
    /\ treeLog' = [treeLog EXCEPT !.transformed = FALSE, !.laidOut = FALSE,
                                  !.resets = 0]
    /\ UNCHANGED pipeVars

TreeEndUi ==
    /\ elementTree' = end_ui(elementTree)
    /\ treeLog' = [treeLog EXCEPT !.transformed = TRUE, !.laidOut = TRUE,
                                  !.written = transformed_indices(elementTree),
                                  !.resets = 0]
    /\ UNCHANGED calls
    /\ UNCHANGED pipeVars

\* a caller runs the layout pass alone
TreeLayout ==
    /\ elementTree' = layout(elementTree)
    /\ treeLog' = [treeLog EXCEPT !.laidOut = TRUE, !.resets = 0]
    /\ UNCHANGED calls
    /\ UNCHANGED pipeVars

\* a caller looks an element up by one of the indices push_element returned
TreeLookup ==
    /\ \E index \in Returned :
          treeLog' = [treeLog EXCEPT !.lookup = lookup(elementTree, index)]
    /\ UNCHANGED <<elementTree, calls>>
    /\ UNCHANGED pipeVars

-----------------------------------------------------------------------------
(* Input events *)

\* 600 - evt.y in c_render's MOUSE_MOVE case: the window height
WindowHeight == 600

MousePoints == {<<10, 500>>, <<40, 500>>}
Buttons == {0}

\* what the uninitialized locals mouseX, mouseY of c_render may hold
MouseGarbage == {<<0, 0>>, <<700, 700>>}

push(q, v) == Append(q, v)

handle_mousemove(q, x, y) ==
    push(q, [type |-> "MOUSE_MOVE", x |-> x, y |-> y, button |-> -1])

handle_mousedown(q, button) ==
    push(q, [type |-> "MOUSE_DOWN", x |-> 0, y |-> 0, button |-> button])

handle_mouseup(q, button) ==
    push(q, [type |-> "MOUSE_UP", x |-> 0, y |-> 0, button |-> button])

\* mutant of read_events: the queue is read newest event first
RECURSIVE read_events_newest_first(_, _)
read_events_newest_first(q, mouse) ==
    IF q = <<>> THEN mouse
    ELSE read_events_newest_first(SubSeq(q, 1, Len(q) - 1),
                     IF q[Len(q)].type = "MOUSE_MOVE"
                     THEN <<q[Len(q)].x, WindowHeight - q[Len(q)].y>>
                     ELSE mouse)

\* the loop over context->events, then events.clear()
RECURSIVE read_events(_, _)
read_events(q, mouse) ==
    IF q = <<>> THEN mouse
    ELSE read_events(Tail(q),
                     IF q[1].type = "MOUSE_MOVE"
                     THEN <<q[1].x, WindowHeight - q[1].y>>
                     ELSE mouse)

\* mutant of drain_events: the events.clear() after the loop is missing
drain_events_no_clear(q, mouse) ==
    [mouse |-> read_events(q, mouse), events |-> q, phases |-> <<"drain_events">>]

drain_events(q, mouse) ==
    [mouse |-> read_events(q, mouse), events |-> <<>>, phases |-> <<"drain_events">>]

-----------------------------------------------------------------------------
(* The user interface c_render builds each tick *)

WindowId == 1
OtherId == 2
OtherExtent == <<32, 128>>

ColorHover == <<1, 2, 9, 10>>   \* { 0.1f, 0.2f, 0.9f, 1.f } in tenths
ColorPlain == <<10, 0, 0, 0>>   \* { 1.f }

build_ui(t) ==
    LET t0 == begin_ui(t)
        w  == push_element(t0, NoIndex, from_id(WindowId))
        o  == push_element(w.tree, w.result, from_id(OtherId))
        l  == lookup(o.tree, o.result)
        t1 == set_extent(o.tree, l.slot, OtherExtent)
    IN  [tree |-> end_ui(t1),
         windowElem |-> w.result,
         otherElem |-> o.result,
         lookup |-> l,
         written |-> transformed_indices(t1),
         phases |-> <<"begin_ui", "push_element", "push_element", "operator[]", "end_ui">>,
         calls |-> <<[parent |-> NoIndex, result |-> w.result],
                     [parent |-> w.result, result |-> o.result]>>]

hit_color(t, otherElem, mouse) ==
    LET e == t.elements[otherElem]
    IN  IF /\ mouse[1] >= e.pos[1]
           /\ mouse[1] <= e.pos[1] + e.extent[1]
           /\ mouse[2] >= e.pos[2]
           /\ mouse[2] <= e.pos[2] + e.extent[2]
        THEN ColorHover
        ELSE ColorPlain

-----------------------------------------------------------------------------
(* Frame pipeline *)

\* FixedArray<VirtualFrame, 3>
FrameCapacity == 3
Frames == 0 .. (FrameCapacity - 1)

NoFence == 0
FenceHandles == 1 .. MaxFenceHandle

\* the buffer handle gl_create_buffer gave frame i in Context::init
StagingBuffer(i) == i + 1

Signaled == {"GL_ALREADY_SIGNALED", "GL_CONDITION_SATISFIED"}

\* what gl_client_wait_sync(fence, 0, 0) may return for a sync object
WaitResults(status) ==
    IF status = "signaled"
    THEN Signaled \cup {"GL_WAIT_FAILED"}
    ELSE {"GL_TIMEOUT_EXPIRED", "GL_WAIT_FAILED"}

GlCall(op, arg, offset, size) ==
    [op |-> op, arg |-> arg, offset |-> offset, size |-> size]

\* mutant of begin_frame: the GL_TIMEOUT_EXPIRED test is missing, so an
\* unsignaled fence is deleted and the frame reused
begin_frame_no_timeout_test(frames, idx, waitResult) ==
    LET frame == frames[idx]
    IN  IF frame.fence # NoFence
        THEN IF waitResult = "GL_WAIT_FAILED"
             THEN [ret |-> FALSE, frames |-> frames, deleted |-> NoFence,
                   console |-> <<"Wait failed">>,
                   gl |-> <<GlCall("clientWaitSync", frame.fence, 0, 0)>>]
             ELSE [ret |-> TRUE,
                   frames |-> [frames EXCEPT ![idx].fence = NoFence],
                   deleted |-> frame.fence,
                   console |-> <<>>,
                   gl |-> <<GlCall("clientWaitSync", frame.fence, 0, 0),
                            GlCall("deleteSync", frame.fence, 0, 0)>>]
        ELSE [ret |-> TRUE, frames |-> frames, deleted |-> NoFence,
              console |-> <<>>, gl |-> <<>>]

\* mutant of begin_frame: the timeout branch logs and returns true
begin_frame_timeout_returns_true(frames, idx, waitResult) ==
    LET frame == frames[idx]
    IN  IF frame.fence # NoFence
        THEN IF waitResult = "GL_WAIT_FAILED"
             THEN [ret |-> FALSE, frames |-> frames, deleted |-> NoFence,
                   console |-> <<"Wait failed">>,
                   gl |-> <<GlCall("clientWaitSync", frame.fence, 0, 0)>>]
             ELSE IF waitResult = "GL_TIMEOUT_EXPIRED"
             THEN [ret |-> TRUE, frames |-> frames, deleted |-> NoFence,
                   console |-> <<"Timeout expired">>,
                   gl |-> <<GlCall("clientWaitSync", frame.fence, 0, 0)>>]
             ELSE [ret |-> TRUE,
                   frames |-> [frames EXCEPT ![idx].fence = NoFence],
                   deleted |-> frame.fence,
                   console |-> <<>>,
                   gl |-> <<GlCall("clientWaitSync", frame.fence, 0, 0),
                            GlCall("deleteSync", frame.fence, 0, 0)>>]
        ELSE [ret |-> TRUE, frames |-> frames, deleted |-> NoFence,
              console |-> <<>>, gl |-> <<>>]

\* mutant of begin_frame: a failed wait is logged but the return is missing,
\* so the fence is deleted and the frame is taken
begin_frame_wait_failed_continues(frames, idx, waitResult) ==
    LET frame == frames[idx]
    IN  IF frame.fence # NoFence
        THEN IF waitResult = "GL_TIMEOUT_EXPIRED"
             THEN [ret |-> FALSE, frames |-> frames, deleted |-> NoFence,
                   console |-> <<"Timeout expired">>,
                   gl |-> <<GlCall("clientWaitSync", frame.fence, 0, 0)>>]
             ELSE [ret |-> TRUE,
                   frames |-> [frames EXCEPT ![idx].fence = NoFence],
                   deleted |-> frame.fence,
                   console |-> IF waitResult = "GL_WAIT_FAILED"
                               THEN <<"Wait failed">> ELSE <<>>,
                   gl |-> <<GlCall("clientWaitSync", frame.fence, 0, 0),
                            GlCall("deleteSync", frame.fence, 0, 0)>>]
        ELSE [ret |-> TRUE, frames |-> frames, deleted |-> NoFence,
              console |-> <<>>, gl |-> <<>>]

\* mutant of begin_frame: a failed or timed-out wait forgets the fence
begin_frame_failure_drops_fence(frames, idx, waitResult) ==
    LET frame == frames[idx]
    IN  IF frame.fence # NoFence
        THEN IF waitResult = "GL_WAIT_FAILED"
             THEN [ret |-> FALSE,
                   frames |-> [frames EXCEPT ![idx].fence = NoFence],
                   deleted |-> NoFence,
                   console |-> <<"Wait failed">>,
                   gl |-> <<GlCall("clientWaitSync", frame.fence, 0, 0)>>]
             ELSE IF waitResult = "GL_TIMEOUT_EXPIRED"
             THEN [ret |-> FALSE,
                   frames |-> [frames EXCEPT ![idx].fence = NoFence],
                   deleted |-> NoFence,
                   console |-> <<"Timeout expired">>,
                   gl |-> <<GlCall("clientWaitSync", frame.fence, 0, 0)>>]
             ELSE [ret |-> TRUE,
                   frames |-> [frames EXCEPT ![idx].fence = NoFence],
                   deleted |-> frame.fence,
                   console |-> <<>>,
                   gl |-> <<GlCall("clientWaitSync", frame.fence, 0, 0),
                            GlCall("deleteSync", frame.fence, 0, 0)>>]
        ELSE [ret |-> TRUE, frames |-> frames, deleted |-> NoFence,
              console |-> <<>>, gl |-> <<>>]

\* mutant of begin_frame: a signaled fence is forgotten without gl_delete_sync
begin_frame_no_delete(frames, idx, waitResult) ==
    LET frame == frames[idx]
    IN  IF frame.fence # NoFence
        THEN IF waitResult = "GL_WAIT_FAILED"
             THEN [ret |-> FALSE, frames |-> frames, deleted |-> NoFence,
                   console |-> <<"Wait failed">>,
                   gl |-> <<GlCall("clientWaitSync", frame.fence, 0, 0)>>]
             ELSE IF waitResult = "GL_TIMEOUT_EXPIRED"
             THEN [ret |-> FALSE, frames |-> frames, deleted |-> NoFence,
                   console |-> <<"Timeout expired">>,
                   gl |-> <<GlCall("clientWaitSync", frame.fence, 0, 0)>>]
             ELSE [ret |-> TRUE,
                   frames |-> [frames EXCEPT ![idx].fence = NoFence],
                   deleted |-> NoFence,
                   console |-> <<>>,
                   gl |-> <<GlCall("clientWaitSync", frame.fence, 0, 0)>>]
        ELSE [ret |-> TRUE, frames |-> frames, deleted |-> NoFence,
              console |-> <<>>, gl |-> <<>>]

\* mutant of begin_frame: a signaled fence is deleted but frame.fence = 0
\* is missing
begin_frame_keeps_fence(frames, idx, waitResult) ==
    LET frame == frames[idx]
    IN  IF frame.fence # NoFence
        THEN IF waitResult = "GL_WAIT_FAILED"
             THEN [ret |-> FALSE, frames |-> frames, deleted |-> NoFence,
                   console |-> <<"Wait failed">>,
                   gl |-> <<GlCall("clientWaitSync", frame.fence, 0, 0)>>]
             ELSE IF waitResult = "GL_TIMEOUT_EXPIRED"
             THEN [ret |-> FALSE, frames |-> frames, deleted |-> NoFence,
                   console |-> <<"Timeout expired">>,
                   gl |-> <<GlCall("clientWaitSync", frame.fence, 0, 0)>>]
             ELSE [ret |-> TRUE, frames |-> frames, deleted |-> frame.fence,
                   console |-> <<>>,
                   gl |-> <<GlCall("clientWaitSync", frame.fence, 0, 0),
                            GlCall("deleteSync", frame.fence, 0, 0)>>]
        ELSE [ret |-> TRUE, frames |-> frames, deleted |-> NoFence,
              console |-> <<>>, gl |-> <<>>]

begin_frame(frames, idx, waitResult) ==
    LET frame == frames[idx]
    IN  IF frame.fence # NoFence
        THEN IF waitResult = "GL_WAIT_FAILED"
             THEN [ret |-> FALSE, frames |-> frames, deleted |-> NoFence,
                   console |-> <<"Wait failed">>,
                   gl |-> <<GlCall("clientWaitSync", frame.fence, 0, 0)>>]
             ELSE IF waitResult = "GL_TIMEOUT_EXPIRED"
             THEN [ret |-> FALSE, frames |-> frames, deleted |-> NoFence,
                   console |-> <<"Timeout expired">>,
                   gl |-> <<GlCall("clientWaitSync", frame.fence, 0, 0)>>]
             ELSE [ret |-> TRUE,
                   frames |-> [frames EXCEPT ![idx].fence = NoFence],
                   deleted |-> frame.fence,
                   console |-> <<>>,
                   gl |-> <<GlCall("clientWaitSync", frame.fence, 0, 0),
                            GlCall("deleteSync", frame.fence, 0, 0)>>]
        ELSE [ret |-> TRUE, frames |-> frames, deleted |-> NoFence,
              console |-> <<>>, gl |-> <<>>]

\* mutant of end_frame: the cursor wraps one frame early
end_frame_wraps_early(frames, idx, fence) ==
    [frames |-> [frames EXCEPT ![idx].fence = fence],
     idx    |-> IF idx + 1 >= FrameCapacity - 1 THEN 0 ELSE idx + 1,
     gl     |-> <<GlCall("fenceSync", fence, 0, 0)>>]

\* mutant of end_frame: the cursor skips a frame
end_frame_skips_a_frame(frames, idx, fence) ==
    [frames |-> [frames EXCEPT ![idx].fence = fence],
     idx    |-> (idx + 2) % FrameCapacity,
     gl     |-> <<GlCall("fenceSync", fence, 0, 0)>>]

\* mutant of end_frame: the fence is created but not stored in the frame
end_frame_drops_fence(frames, idx, fence) ==
    [frames |-> frames,
     idx    |-> IF idx + 1 >= FrameCapacity THEN 0 ELSE idx + 1,
     gl     |-> <<GlCall("fenceSync", fence, 0, 0)>>]

\* mutant of end_frame: the cursor is advanced before the fence is stored
end_frame_advances_first(frames, idx, fence) ==
    LET next == IF idx + 1 >= FrameCapacity THEN 0 ELSE idx + 1
    IN  [frames |-> [frames EXCEPT ![next].fence = fence],
         idx    |-> next,
         gl     |-> <<GlCall("fenceSync", fence, 0, 0)>>]

end_frame(frames, idx, fence) ==
    [frames |-> [frames EXCEPT ![idx].fence = fence],
     idx    |-> IF idx + 1 >= FrameCapacity THEN 0 ELSE idx + 1,
     gl     |-> <<GlCall("fenceSync", fence, 0, 0)>>]

\* sizeof(rectangle): 6 vertices of 6 floats; sizeof(triangle): 3 vertices
RectangleBytes == 144
TriangleBytes == 72
VertexStride == 24

\* mutant of push_rectangle: *offset is not advanced
push_rectangle_keeps_offset(offset, pos, extent, color) ==
    [gl |-> <<GlCall("bufferSubData", <<pos, extent, color>>, offset, RectangleBytes)>>,
     offset |-> offset]

\* push_rectangle: one upload at *offset, then *offset += sizeof(rectangle)
push_rectangle(offset, pos, extent, color) ==
    [gl |-> <<GlCall("bufferSubData", <<pos, extent, color>>, offset, RectangleBytes)>>,
     offset |-> offset + RectangleBytes]

\* the loop over context->drawCommands
RECURSIVE write_commands(_, _, _, _)
write_commands(cmds, i, t, offset) ==
    IF i > Len(cmds)
    THEN [gl |-> <<>>, offset |-> offset]
    ELSE LET cmd  == cmds[i]
             r    == push_rectangle(offset,
                                    t.positions[cmd.elementIndex],
                                    t.elements[cmd.elementIndex].extent,
                                    cmd.color)
             rest == write_commands(cmds, i + 1, t, r.offset)
         IN  [gl |-> r.gl \o rest.gl, offset |-> rest.offset]

\* mutant of write_geometry: the rectangles and the triangle are drawn by
\* separate draw calls
write_geometry_draws_twice(cmds, t, staging, timestamp) ==
    LET w      == write_commands(cmds, 1, t, 0)
        offset == w.offset + TriangleBytes
    IN  [gl |-> <<GlCall("clear", 0, 0, 0),
                  GlCall("bindBuffer", staging, 0, 0)>>
                \o w.gl
                \o <<GlCall("copyBufferSubData", staging, 0, w.offset),
                     GlCall("drawArrays", 0, 0, w.offset \div VertexStride),
                     GlCall("bufferSubData", <<"triangle", timestamp>>, w.offset, TriangleBytes),
                     GlCall("copyBufferSubData", staging, w.offset, TriangleBytes),
                     GlCall("drawArrays", w.offset \div VertexStride, 0,
                            TriangleBytes \div VertexStride)>>,
         commands |-> <<>>,
         offset |-> offset]

\* the geometry write of a tick whose begin_frame succeeded, up to the draw call
write_geometry(cmds, t, staging, timestamp) ==
    LET w      == write_commands(cmds, 1, t, 0)
        offset == w.offset + TriangleBytes
    IN  [gl |-> <<GlCall("clear", 0, 0, 0),
                  GlCall("bindBuffer", staging, 0, 0)>>
                \o w.gl
                \o <<GlCall("bufferSubData", <<"triangle", timestamp>>, w.offset, TriangleBytes),
                     GlCall("copyBufferSubData", staging, 0, offset),
                     GlCall("drawArrays", 0, 0, offset \div VertexStride)>>,
         commands |-> <<>>,
         offset |-> offset]

-----------------------------------------------------------------------------
(* State after c_init *)

\* the timestamps c_render is called with
Timestamps == {1}

TickRecord(kind, cursor, fence, wait, ret, fenceAfterBegin, busy, armed) ==
    [kind |-> kind,                 \* "none", "idle", "skipped" or "submitted"
     cursorBefore |-> cursor,       \* virtualFrameIdx when the tick started
     fenceBefore |-> fence,         \* that frame's fence when the tick started
     wait |-> wait,                 \* what gl_client_wait_sync returned, or "none"
     ret |-> ret,                   \* what begin_frame returned
     fenceAfterBegin |-> fenceAfterBegin,  \* the frame's fence when begin_frame returned
     stagingBusy |-> busy,          \* the GPU still had to read the staging region written
     created |-> armed]             \* the handle gl_fence_sync returned, or NoFence

\* console_fmt: every message is formatted into a string allocated from the
\* temporary arena; the arena is modelled by the number of live strings
console_fmt(temporary, messages) == temporary + Len(messages)

\* temporaryAllocator->clear()
clear_temporary(temporary) == 0

NoColor == <<>>

TickLog(console, phases, color, drained) ==
    [console |-> console,   \* what console_fmt logged
     phases |-> phases,     \* the steps of the tick, in the order c_render runs them
     color |-> color,       \* the colour of the draw command the tick pushed
     drained |-> drained]   \* how many events the tick read from the queue

InitPipeline ==
    /\ calls = <<>>
    /\ temporaryAllocator = clear_temporary(console_fmt(0, <<"Hello JS">>))
    /\ virtualFrames = [i \in Frames |->
                           [stagingBuffer |-> StagingBuffer(i), fence |-> NoFence]]
    /\ virtualFrameIdx = 0
    /\ drawCommands = <<>>
    /\ lastTimestamp = 0
    /\ syncs = [h \in FenceHandles |-> "free"]
    /\ gpuQueue = <<>>
    /\ glLog = <<>>
    /\ lastTick = TickRecord("none", 0, NoFence, "none", FALSE, NoFence, FALSE, NoFence)
    /\ streak = <<>>
    /\ tickLog = TickLog(<<>>, <<>>, NoColor, 0)
    /\ lastArmed = <<>>
    /\ treeLog = [transformed |-> FALSE, laidOut |-> FALSE, resets |-> 0,
                  written |-> {}, lookup |-> NoLookup]

Init ==
    /\ \E g \in GarbageFills : elementTree = TreeInit(g)
    /\ events = <<>>
    /\ InitPipeline

\* the tree holds as many elements as its capacity: none
InitTreeFull ==
    /\ \E g \in GarbageFills : elementTree = TreeInitEmpty(g)
    /\ events = <<>>
    /\ InitPipeline

\* the extents and the constraints the layout pass is given
LayoutExtents == {<<50, 50>>, <<100, 100>>, <<200, 200>>}

LayoutConstraints ==
    {<<>>} \cup {<<[index |-> 0, minExtent |-> <<m, m>>, maxExtent |-> <<x, x>>]>> :
                    m \in {0, 80}, x \in {100, 150}}

\* a tree of at most one element, with at most one constraint attached to it
InitLayout ==
    /\ \E g \in GarbageFills, e \in LayoutExtents, cs \in LayoutConstraints,
          n \in 0 .. 1 :
          elementTree = [TreeInit(g) EXCEPT !.elements[0] =
                                                [id |-> WindowId, pos |-> Vec2Zero,
                                                 extent |-> e],
                                            !.parents[0] = NoIndex,
                                            !.elementCount = n,
                                            !.constraints = cs,
                                            !.constraintCount = Len(cs)]
    /\ events = <<>>
    /\ InitPipeline

\* the events the handlers can buffer
EventValues ==
    {handle_mousemove(<<>>, p[1], p[2])[1] : p \in MousePoints}
    \cup {handle_mousedown(<<>>, b)[1] : b \in Buttons}
    \cup {handle_mouseup(<<>>, b)[1] : b \in Buttons}

Batches == UNION {[1 .. n -> EventValues] : n \in 0 .. MaxBatch}

\* the page delivered a batch of input events before the first tick
InitBatch ==
    /\ \E g \in GarbageFills : elementTree = TreeInit(g)
    /\ events \in Batches
    /\ InitPipeline

-----------------------------------------------------------------------------
(* Spec: the exported entry points and the GPU *)

inputUnchanged == <<elementTree, calls, virtualFrames, virtualFrameIdx, drawCommands,
                    temporaryAllocator,
                    lastTimestamp, syncs, gpuQueue, glLog, lastTick, streak,
                    tickLog, lastArmed, treeLog>>

HandleMousemove ==
    /\ Len(events) < MaxEvents
    /\ \E p \in MousePoints : events' = handle_mousemove(events, p[1], p[2])
    /\ UNCHANGED inputUnchanged

HandleMousedown ==
    /\ Len(events) < MaxEvents
    /\ \E b \in Buttons : events' = handle_mousedown(events, b)
    /\ UNCHANGED inputUnchanged

HandleMouseup ==
    /\ Len(events) < MaxEvents
    /\ \E b \in Buttons : events' = handle_mouseup(events, b)
    /\ UNCHANGED inputUnchanged

\* gl_fence_sync: the handle of the new sync object, the lowest one not in use
fence_sync(s) ==
    CHOOSE h \in FenceHandles :
        /\ s[h] = "free"
        /\ \A k \in FenceHandles : s[k] = "free" => h <= k

\* the GPU still has a submitted copy out of this staging buffer to execute
StagingBusy(buffer) == \E k \in 1 .. Len(gpuQueue) : gpuQueue[k].staging = buffer

\* the most recent FrameCapacity successful ticks of the current run
Extend(s, e) ==
    IF Len(s) < FrameCapacity THEN Append(s, e) ELSE Append(Tail(s), e)

\* what mouseX, mouseY hold when the event loop starts; a MOUSE_MOVE in the
\* batch overwrites them, and then one value stands for all
UninitializedMouse(q) ==
    IF \E k \in 1 .. Len(q) : q[k].type = "MOUSE_MOVE"
    THEN {CHOOSE m \in MouseGarbage : TRUE}
    ELSE MouseGarbage

\* mutant of no_events: the test of events.count is missing
no_events_never(q) == FALSE

\* !context->events.count
no_events(q) == Len(q) = 0

\* the last entry of s and e
Latest(s, e) == IF s = <<>> THEN <<e>> ELSE <<s[Len(s)], e>>

\* the steps of a tick that found events, in the order c_render runs them
tick_order(ui, d, began) ==
    ui.phases \o d.phases \o <<"hit_test", "begin_frame">>
    \o (IF began THEN <<"write_geometry", "end_frame">> ELSE <<>>)

\* one call of c_render.  The queue of draw commands and the temporary allocator
\* grow with every skipped tick; with bounded, a tick is taken only while the
\* queue is below MaxDrawCommands, without it a skipped tick at the bound leaves
\* both as they are, so that runs of skipped ticks of any length exist
c_render(bounded) ==
    \E timestamp \in Timestamps, garbage \in UninitializedMouse(events) :
      /\ lastTimestamp' = timestamp
      /\ IF no_events(events)
         THEN /\ glLog' = <<>>
              /\ lastTick' = TickRecord("idle", virtualFrameIdx,
                                        virtualFrames[virtualFrameIdx].fence,
                                        "none", FALSE,
                                        virtualFrames[virtualFrameIdx].fence,
                                        FALSE, NoFence)
              /\ streak' = <<>>
              /\ tickLog' = TickLog(<<>>, <<>>, NoColor, 0)
              /\ UNCHANGED <<elementTree, calls, events, virtualFrames,
                             virtualFrameIdx, drawCommands, temporaryAllocator,
                             syncs, gpuQueue, lastArmed, treeLog>>
         ELSE /\ bounded => Len(drawCommands) < MaxDrawCommands
              /\ LET ui    == build_ui(elementTree)
                     d     == drain_events(events, garbage)
                     color == hit_color(ui.tree, ui.otherElem, d.mouse)
                     atBound == Len(drawCommands) >= MaxDrawCommands
                     cmds  == IF atBound
                              THEN drawCommands
                              ELSE push(drawCommands,
                                        [elementIndex |-> ui.otherElem, color |-> color])
                     idx   == virtualFrameIdx
                     fence == virtualFrames[idx].fence
                 IN  \E wait \in (IF fence = NoFence THEN {"none"}
                                                   ELSE WaitResults(syncs[fence])) :
                       LET bf     == begin_frame(virtualFrames, idx, wait)
                           syncs1 == IF bf.deleted # NoFence
                                     THEN [syncs EXCEPT ![bf.deleted] = "free"]
                                     ELSE syncs
                       IN  /\ elementTree' = ui.tree
                           /\ calls' = ui.calls
                           /\ events' = d.events
                           /\ treeLog' = [transformed |-> TRUE, laidOut |-> TRUE,
                                           resets |-> 0, written |-> ui.written,
                                           lookup |-> ui.lookup]
                           /\ tickLog' = TickLog(bf.console,
                                                 tick_order(ui, d, bf.ret), color,
                                                 Len(events))
                           /\ IF ~bf.ret
                              THEN /\ virtualFrames' = bf.frames
                                   /\ syncs' = syncs1
                                   /\ drawCommands' = cmds
                                   /\ temporaryAllocator' =
                                          IF atBound
                                          THEN temporaryAllocator
                                          ELSE console_fmt(temporaryAllocator, bf.console)
                                   /\ glLog' = bf.gl
                                   /\ lastTick' = TickRecord("skipped", idx, fence, wait,
                                                             FALSE, bf.frames[idx].fence,
                                                             FALSE, NoFence)
                                   /\ streak' = <<>>
                                   /\ UNCHANGED <<virtualFrameIdx, gpuQueue, lastArmed>>
                              ELSE LET newFence == fence_sync(syncs1)
                                       frame == bf.frames[idx]
                                       g == write_geometry(cmds, ui.tree,
                                                           frame.stagingBuffer, timestamp)
                                       ef == end_frame(bf.frames, idx, newFence)
                                   IN  /\ virtualFrames' = ef.frames
                                       /\ virtualFrameIdx' = ef.idx
                                       /\ drawCommands' = g.commands
                                       /\ temporaryAllocator' =
                                              clear_temporary(
                                                  console_fmt(temporaryAllocator, bf.console))
                                       /\ syncs' = [syncs1 EXCEPT ![newFence] = "unsignaled"]
                                       /\ gpuQueue' = Append(gpuQueue,
                                              [staging |-> frame.stagingBuffer,
                                               fence |-> newFence])
                                       /\ glLog' = bf.gl \o g.gl \o ef.gl
                                       /\ lastTick' = TickRecord("submitted", idx, fence, wait,
                                               TRUE, frame.fence,
                                               StagingBusy(frame.stagingBuffer), newFence)
                                       /\ streak' = Extend(streak,
                                               [cursorBefore |-> idx,
                                                armed |-> {f \in Frames :
                                                    ef.frames[f].fence # bf.frames[f].fence}])
                                       /\ lastArmed' = Latest(lastArmed,
                                               {f \in Frames :
                                                    ef.frames[f].fence # bf.frames[f].fence})

CRender == c_render(TRUE)

CRenderLive == c_render(FALSE)

\* the GPU finishes the oldest submitted frame; its fence becomes signaled
GpuComplete ==
    /\ gpuQueue # <<>>
    /\ syncs' = [syncs EXCEPT ![Head(gpuQueue).fence] = "signaled"]
    /\ gpuQueue' = Tail(gpuQueue)
    /\ UNCHANGED <<elementTree, calls, events, virtualFrames, virtualFrameIdx,
                   drawCommands, temporaryAllocator, lastTimestamp, glLog, lastTick,
                   streak, tickLog, lastArmed, treeLog>>

Next ==
    \/ HandleMousemove
    \/ HandleMousedown
    \/ HandleMouseup
    \/ CRender
    \/ GpuComplete

Spec == Init /\ [][Next]_vars

NextTree ==
    \/ TreeBeginUi
    \/ TreePushElement
    \/ TreeEndUi
    \/ TreeLookup

NextLive ==
    \/ HandleMousemove
    \/ HandleMousedown
    \/ HandleMouseup
    \/ CRenderLive
    \/ GpuComplete

\* the GPU finishes every frame it was handed
SpecLive == Init /\ [][NextLive]_vars /\ WF_vars(GpuComplete)

SpecTree == Init /\ [][NextTree]_vars

SpecTreeFull == InitTreeFull /\ [][NextTree]_vars

NextLayout ==
    \/ TreeBeginUi
    \/ TreeLayout
    \/ TreeEndUi

SpecLayout == InitLayout /\ [][NextLayout]_vars

SpecBatch == InitBatch /\ [][Next]_vars

-----------------------------------------------------------------------------
(* Properties of the element tree, under SpecTree *)

\* C1: after any sequence of push_element calls following begin_ui, the
\* list read from firstChildren[p] along siblings[] is, for every parent p,
\* exactly the elements appended with parent p, in call order, and its last
\* element is lastChildren[p].
C1_ChildListsFollowCalls ==
    \A p \in Returned :
        /\ ChildList(elementTree, p) = ResultsFor(calls, p)
        /\ elementTree.lastChildren[p] = Last(ResultsFor(calls, p))

\* C2: every appended element i with parents[i] = p # -1 occurs exactly
\* once in p's child list, and every child list ends without revisiting an
\* index (no self-link, no cycle).
C2_ChildListsWellFormed ==
    \A i \in Returned :
        /\ ChildListEnds(elementTree, i)
        /\ elementTree.parents[i] # NoIndex =>
               Occurrences(ChildList(elementTree, elementTree.parents[i]), i) = 1

\* C3: the k-th push_element call after begin_ui (k from 0) returns index
\* k, distinct calls return distinct indices, and the returned index is
\* >= 0 and < elementCount.
C3_NextFreeSlot ==
    /\ \A k \in 1 .. Len(calls) :
          /\ calls[k].result = k - 1
          /\ calls[k].result >= 0
          /\ calls[k].result < elementTree.elementCount
    /\ \A j, k \in 1 .. Len(calls) : j # k => calls[j].result # calls[k].result

-----------------------------------------------------------------------------
(* Properties of the frame pipeline, under Spec *)

CallsOf(log, op) == Cardinality({k \in 1 .. Len(log) : log[k].op = op})

\* the tick reached begin_frame
Polled == lastTick.kind \in {"skipped", "submitted"}

\* C4: every staging write of a tick targets a staging region no
\* outstanding GPU submission still reads, and a frame whose previous fence,
\* if it had one, was observed signaled by the same tick's begin_frame.
C4_StagingWriteOwned ==
    CallsOf(glLog, "bufferSubData") > 0 =>
        /\ ~lastTick.stagingBusy
        /\ lastTick.fenceBefore # NoFence => lastTick.wait \in Signaled

C4_Witness ==
    /\ CallsOf(glLog, "bufferSubData") > 0
    /\ lastTick.fenceBefore # NoFence
    /\ gpuQueue # <<>>

\* C5: a tick whose fence poll timed out issues no staging write, no buffer
\* copy, no draw call and no end_frame.
C5_TimeoutSkipsTick ==
    lastTick.wait = "GL_TIMEOUT_EXPIRED" =>
        /\ CallsOf(glLog, "bufferSubData") = 0
        /\ CallsOf(glLog, "copyBufferSubData") = 0
        /\ CallsOf(glLog, "drawArrays") = 0
        /\ CallsOf(glLog, "fenceSync") = 0
        /\ lastTick.created = NoFence
        /\ virtualFrames[lastTick.cursorBefore].fence = lastTick.fenceBefore
        /\ virtualFrameIdx = lastTick.cursorBefore

C5_Witness == lastTick.wait = "GL_TIMEOUT_EXPIRED" /\ lastTick.kind = "skipped"

\* C6: the draw command queue is empty after every tick, whether
\* begin_frame succeeded or failed.
C6_DrawQueueEmptyAfterTick == lastTick.kind # "none" => drawCommands = <<>>

\* C7: the event queue is empty after every tick, whether begin_frame
\* succeeded or failed.
C7_EventQueueEmptyAfterTick == [][CRender => events' = <<>>]_vars

C7_Witness == lastTick.kind = "skipped" /\ events = <<>>

\* C8: after 3 consecutive successful ticks the cursor is back at its value
\* before the first of them and each of the 3 frames was armed exactly once.
C8_RingAdvance ==
    Len(streak) = FrameCapacity =>
        /\ virtualFrameIdx = streak[1].cursorBefore
        /\ \A k \in 1 .. FrameCapacity : Cardinality(streak[k].armed) = 1
        /\ \A f \in Frames :
              Cardinality({k \in 1 .. FrameCapacity : f \in streak[k].armed}) = 1

C8_Witness == Len(streak) = FrameCapacity /\ streak[1].cursorBefore = 1

\* C9: end_frame stores the new fence in the frame at the cursor and then
\* sets the cursor to (cursor + 1) mod 3; the cursor is always in 0..2.
C9_EndFrameArmsAndAdvances ==
    /\ virtualFrameIdx \in Frames
    /\ lastTick.kind = "submitted" =>
          /\ lastTick.created # NoFence
          /\ virtualFrames[lastTick.cursorBefore].fence = lastTick.created
          /\ \A f \in Frames \ {lastTick.cursorBefore} :
                virtualFrames[f].fence # lastTick.created
          /\ virtualFrameIdx = (lastTick.cursorBefore + 1) % FrameCapacity

C9_Witness == lastTick.kind = "submitted" /\ lastTick.cursorBefore = FrameCapacity - 1

\* C10: begin_frame returns true exactly when the frame at the cursor has no
\* fence or its fence polls as signaled; when it returns true the old fence
\* is deleted and the frame's fence is 0; a frame without a fence is not
\* polled.
C10_BeginFrameResult ==
    Polled =>
        /\ lastTick.ret <=>
              (lastTick.fenceBefore = NoFence \/ lastTick.wait \in Signaled)
        /\ lastTick.ret => lastTick.fenceAfterBegin = NoFence
        /\ (lastTick.ret /\ lastTick.fenceBefore # NoFence) =>
              \E k \in 1 .. Len(glLog) :
                  glLog[k].op = "deleteSync" /\ glLog[k].arg = lastTick.fenceBefore
        /\ lastTick.fenceBefore = NoFence =>
              (CallsOf(glLog, "clientWaitSync") = 0 /\ lastTick.wait = "none")

C10_Witness == lastTick.ret /\ lastTick.wait = "GL_CONDITION_SATISFIED"

\* C11: when the fence poll fails, begin_frame logs a synchronization error
\* and returns false, and the tick writes no geometry and runs no end_frame.
C11_WaitFailedSkipsTick ==
    lastTick.wait = "GL_WAIT_FAILED" =>
        /\ ~lastTick.ret
        /\ tickLog.console = <<"Wait failed">>
        /\ CallsOf(glLog, "bufferSubData") = 0
        /\ CallsOf(glLog, "copyBufferSubData") = 0
        /\ CallsOf(glLog, "drawArrays") = 0
        /\ CallsOf(glLog, "fenceSync") = 0
        /\ lastTick.created = NoFence
        /\ virtualFrames[lastTick.cursorBefore].fence = lastTick.fenceBefore
        /\ virtualFrameIdx = lastTick.cursorBefore

C11_Witness ==
    /\ lastTick.wait = "GL_WAIT_FAILED"
    /\ lastTick.kind = "skipped"
    /\ syncs[lastTick.fenceBefore] = "signaled"

\* C12: once a fence poll has failed, the next tick that reaches begin_frame
\* does not submit a frame (the pipeline is not reinitialized in between:
\* c_init runs once).
C12_WaitFailedIsFatal ==
    [][lastTick.wait = "GL_WAIT_FAILED" => lastTick'.kind # "submitted"]_vars

\* C13: the frame armed by a successful tick is frame 0 for the first one
\* and (the previously armed frame + 1) mod 3 afterwards, whatever ticks
\* were skipped in between.
C13_RingOrder ==
    /\ \A k \in 1 .. Len(lastArmed) : Cardinality(lastArmed[k]) = 1
    /\ Len(lastArmed) = 1 => lastArmed[1] = {0}
    /\ Len(lastArmed) = 2 =>
          \A f \in lastArmed[1] : lastArmed[2] = {(f + 1) % FrameCapacity}

C13_Witness ==
    /\ lastTick.kind = "submitted"
    /\ Len(streak) = 1
    /\ lastTick.fenceBefore # NoFence
    /\ lastArmed = <<{FrameCapacity - 1}, {0}>>

\* C14: a c_render call makes at most one draw call and runs at most one
\* end_frame, and hands the GPU at most one frame.
C14_OneFramePerTick ==
    /\ CallsOf(glLog, "drawArrays") <= 1
    /\ CallsOf(glLog, "fenceSync") <= 1
    /\ Cardinality({k \in 1 .. Len(tickLog.phases) :
                        tickLog.phases[k] = "end_frame"}) <= 1
    /\ (CallsOf(glLog, "drawArrays") = 1) <=> (lastTick.kind = "submitted")

C14_Witness ==
    /\ lastTick.kind = "submitted"
    /\ CallsOf(glLog, "bufferSubData") = MaxDrawCommands + 1
    /\ CallsOf(glLog, "drawArrays") = 1

C16_FullTreeRejectsAppend ==
    [][(Len(calls') > Len(calls)
        /\ elementTree.elementCount = elementTree.elementCapacity) =>
          /\ elementTree' = elementTree
          /\ calls'[Len(calls')].result = NoIndex]_vars

\* C17: after end_ui ran transform, every element of the tree is positioned
\* at its parent's position plus its own offset, a root at its own offset.
C17_TransformPositions ==
    treeLog.transformed =>
        \A i \in Returned :
            elementTree.positions[i] =
                IF elementTree.parents[i] # NoIndex
                THEN Vec2Add(elementTree.positions[elementTree.parents[i]],
                             elementTree.elements[i].pos)
                ELSE elementTree.elements[i].pos

\* a tick that found events in the queue
TickWithEvents ==
    /\ events # <<>>
    /\ Len(events') <= Len(events)
    /\ Len(gpuQueue') >= Len(gpuQueue)

Positions(seq, x) == {k \in 1 .. Len(seq) : seq[k] = x}

\* the position of the newest MOUSE_MOVE of a batch, flipped to window space
LastMove(q) ==
    LET K == {k \in 1 .. Len(q) : q[k].type = "MOUSE_MOVE"}
        m == CHOOSE k \in K : \A j \in K : j <= k
    IN  <<q[m].x, WindowHeight - q[m].y>>

C20_LookupOutOfRangeFails ==
    treeLog.lookup.index >= treeLog.lookup.count => treeLog.lookup.failed

RECURSIVE Select(_, _)
Select(log, op) ==
    IF log = <<>> THEN <<>>
    ELSE (IF log[1].op = op THEN <<log[1]>> ELSE <<>>) \o Select(Tail(log), op)

\* a tick that handed a frame to the GPU
TickSubmits == Len(gpuQueue') > Len(gpuQueue)

\* C23: a successful tick uploads the queued draw commands in insertion
\* order, command k (from 0) at byte offset 144*k, the triangle right after
\* the last rectangle; the copy length and the vertex count (offset / 24)
\* cover exactly the bytes uploaded.
C23_GeometryLayout ==
    [][TickSubmits =>
          LET uploads == Select(glLog', "bufferSubData")
              n       == Len(drawCommands) + 1
              total   == RectangleBytes * n + TriangleBytes
          IN  /\ Len(uploads) = n + 1
              /\ \A k \in 1 .. n :
                    /\ uploads[k].offset = RectangleBytes * (k - 1)
                    /\ uploads[k].size = RectangleBytes
                    /\ uploads[k].arg[3] = IF k < n THEN drawCommands[k].color
                                                    ELSE tickLog'.color
              /\ uploads[n + 1].arg[1] = "triangle"
              /\ uploads[n + 1].offset = RectangleBytes * n
              /\ uploads[n + 1].size = TriangleBytes
              /\ \A c \in {k \in 1 .. Len(glLog') : glLog'[k].op = "copyBufferSubData"} :
                    glLog'[c].offset = 0 /\ glLog'[c].size = total
              /\ \A d \in {k \in 1 .. Len(glLog') : glLog'[k].op = "drawArrays"} :
                    glLog'[d].size * VertexStride = total
              /\ drawCommands' = <<>>]_vars

C23_Witness ==
    /\ lastTick.kind = "submitted"
    /\ Len(Select(glLog, "bufferSubData")) = MaxDrawCommands + 1
    /\ Select(glLog, "bufferSubData")[1].arg[3] # Select(glLog, "bufferSubData")[2].arg[3]
    /\ Select(glLog, "drawArrays")[1].size =
          (RectangleBytes * MaxDrawCommands + TriangleBytes) \div VertexStride

\* C24: the temporary allocator is cleared by every tick, so no temporary
\* allocation is live between ticks, the diagnostic strings of a failed
\* begin_frame included.
C24_TemporaryClearedEveryTick == temporaryAllocator = 0

\* C25: every element of the tree that has a parent has an index greater
\* than its parent's index.
C25_ParentBeforeChild ==
    \A i \in Returned :
        elementTree.parents[i] # NoIndex => elementTree.parents[i] < i

\* C26: right after push_element returned r, firstChildren[r], lastChildren[r]
\* and siblings[r] are -1, and steps that are no push_element leave the links
\* of the returned elements as they are.
C26_NewElementIsLeaf ==
    [][(Len(calls') > Len(calls) =>
            \A r \in {calls'[Len(calls')].result} :
                /\ elementTree'.firstChildren[r] = NoIndex
                /\ elementTree'.lastChildren[r] = NoIndex
                /\ elementTree'.siblings[r] = NoIndex)
       /\ (calls' = calls =>
            \A i \in Returned :
                /\ elementTree'.firstChildren[i] = elementTree.firstChildren[i]
                /\ elementTree'.lastChildren[i] = elementTree.lastChildren[i]
                /\ elementTree'.siblings[i] = elementTree.siblings[i])]_vars

\* C27: the geometry write of a tick consumes only the draw command that
\* tick appended (one rectangle, then the triangle), and the command's
\* element index is below the element count of the tick's tree.
C27_CommandsOfSameTick ==
    lastTick.kind = "submitted" =>
        /\ Len(Select(glLog, "bufferSubData")) = 2
        /\ Select(glLog, "bufferSubData")[1].arg[3] = tickLog.color
        /\ treeLog.lookup.index < elementTree.elementCount

\* C28: the positions[] entry the geometry write reads for the draw command's
\* element was written by the transform of the same tick.
C28_PositionsWrittenByTransform ==
    lastTick.kind = "submitted" => treeLog.lookup.index \in treeLog.written

\* a tick entered with an empty event queue
IdleTick ==
    /\ events = <<>>
    /\ events' = <<>>
    /\ Len(gpuQueue') >= Len(gpuQueue)

\* C30: a tick entered with an empty event queue changes only the stored
\* timestamp: tree, draw commands, fences, cursor and temporary memory are
\* unchanged, no fence is polled and no GL command is issued.
C30_IdleTickChangesNothing ==
    [][IdleTick =>
          /\ lastTimestamp' \in Timestamps
          /\ elementTree' = elementTree
          /\ drawCommands' = drawCommands
          /\ virtualFrames' = virtualFrames
          /\ virtualFrameIdx' = virtualFrameIdx
          /\ temporaryAllocator' = temporaryAllocator
          /\ syncs' = syncs
          /\ gpuQueue' = gpuQueue
          /\ glLog' = <<>>
          /\ lastTick'.wait = "none"]_vars

C30_Witness ==
    /\ lastTick.kind = "idle"
    /\ lastTimestamp \in Timestamps
    /\ drawCommands # <<>>
    /\ \A f \in Frames : virtualFrames[f].fence # NoFence
    /\ gpuQueue # <<>>

\* C31: a tick whose begin_frame returned false leaves the cursor, the
\* fences of all three frames and the sync objects as they were and deletes
\* no fence; the next tick that reaches begin_frame polls the same frame and
\* the same fence.
C31_FailedBeginFrameKeepsFrame ==
    [][TickWithEvents =>
          /\ (lastTick'.kind = "skipped" =>
                 /\ virtualFrameIdx' = virtualFrameIdx
                 /\ \A f \in Frames : virtualFrames'[f].fence = virtualFrames[f].fence
                 /\ syncs' = syncs
                 /\ CallsOf(glLog', "deleteSync") = 0)
          /\ (lastTick.kind = "skipped" =>
                 /\ lastTick'.cursorBefore = lastTick.cursorBefore
                 /\ lastTick'.fenceBefore = lastTick.fenceBefore
                 /\ lastTick'.wait # "none")]_vars

C31_Witness ==
    /\ lastTick.kind = "skipped"
    /\ Len(drawCommands) = MaxDrawCommands
    /\ virtualFrames[virtualFrameIdx].fence = lastTick.fenceBefore
    /\ syncs[lastTick.fenceBefore] # "free"

\* the sync objects that exist on the GL side
LiveFences == {h \in FenceHandles : syncs[h] # "free"}

\* C32: the live fences are exactly the fences stored in the frames, one
\* frame each, so at most 3 are live; end_frame stores the new fence into a
\* frame whose fence is 0, the old one having been deleted.
C32_NoFenceLeak ==
    /\ LiveFences = {virtualFrames[f].fence : f \in Frames} \ {NoFence}
    /\ \A f, g \in Frames :
          (f # g /\ virtualFrames[f].fence # NoFence) =>
              virtualFrames[f].fence # virtualFrames[g].fence
    /\ Cardinality(LiveFences) <= FrameCapacity
    /\ lastTick.kind = "submitted" =>
          /\ lastTick.fenceAfterBegin = NoFence
          /\ lastTick.fenceBefore # NoFence =>
                (syncs[lastTick.fenceBefore] = "free"
                 \/ lastTick.created = lastTick.fenceBefore)

C32_Witness ==
    /\ lastTick.kind = "submitted"
    /\ lastTick.fenceBefore # NoFence
    /\ Cardinality(LiveFences) = FrameCapacity
    /\ syncs[lastTick.fenceBefore] # "free"

\* C34: every tick that reaches the hit test drained a MOUSE_MOVE event, and
\* the hit test compares the coordinates of the most recent one.
C34_MouseAssignedBeforeHitTest ==
    [][TickWithEvents =>
          /\ \E k \in 1 .. Len(events) : events[k].type = "MOUSE_MOVE"
          /\ tickLog'.color =
                hit_color(elementTree', treeLog'.lookup.index, LastMove(events))]_vars

\* a tick retired the fence of frame f and submitted the frame again
Resubmitted(f) ==
    /\ lastTick.kind = "submitted"
    /\ lastTick.cursorBefore = f
    /\ lastTick.fenceBefore # NoFence
    /\ lastTick.fenceAfterBegin = NoFence

\* C33: if no fence poll ever fails and ticks with a non-empty event queue
\* keep occurring, then, the GPU finishing every frame it was handed, every
\* frame is again and again retired and submitted: the pipeline does not
\* skip ticks forever.
C33_PipelineProgress ==
    ([](lastTick.wait # "GL_WAIT_FAILED") /\ []<><<TickWithEvents>>_vars)
        => \A f \in Frames : []<>Resubmitted(f)

C33_Witness ==
    /\ Resubmitted(FrameCapacity - 1)
    /\ lastTick.wait \in Signaled
    /\ CallsOf(glLog, "bufferSubData") = MaxDrawCommands + 1
    /\ gpuQueue = <<[staging |-> StagingBuffer(FrameCapacity - 1),
                     fence |-> lastTick.created]>>

====
